---- MODULE Spec2Model ----
(***************************************************************************)
(* Payment scheduling and status engine of the rent tracker                *)
(* (backend/app/services/payment_service.py and the payment / tenant       *)
(* routers that act on the same rows).                                     *)
(*                                                                         *)
(* Dates are day numbers counted from 1 January 2023 (day 0); the calendar *)
(* operators below convert between day numbers and (year, month, day) with *)
(* the Gregorian month lengths, so month arithmetic clamps the day exactly *)
(* as dateutil.relativedelta does.                                         *)
(***************************************************************************)
EXTENDS Integers, Sequences, FiniteSets, TLC

\* ------------------------------------------------------------------ calendar

Min(a, b) == IF a <= b THEN a ELSE b

IsLeap(y) == (y % 4 = 0 /\ y % 100 # 0) \/ y % 400 = 0

\* calendar.monthrange(y, m)[1]
DaysInMonth(y, m) ==
    IF m = 2 THEN (IF IsLeap(y) THEN 29 ELSE 28)
    ELSE IF m \in {4, 6, 9, 11} THEN 30 ELSE 31

\* the days from 1 January 2023 to 1 January of year y (2023..2099: every
\* fourth year from 2024 is a leap year)
DaysBeforeYear(y) == 365 * (y - 2023) + ((y - 2021) \div 4)

\* the days from 1 January to the first of month m
DaysBeforeMonth(y, m) ==
    <<0, 31, 59, 90, 120, 151, 181, 212, 243, 273, 304, 334>>[m]
    + (IF m > 2 /\ IsLeap(y) THEN 1 ELSE 0)

\* date(y, m, d) as a day number
MkDate(y, m, d) == DaysBeforeYear(y) + DaysBeforeMonth(y, m) + (d - 1)

\* the year holding day r of a four-year cycle that starts with 2023
YearInCycle(r) ==
    IF r < 365 THEN 0 ELSE IF r < 731 THEN 1 ELSE IF r < 1096 THEN 2 ELSE 3

\* the month of year y holding its day day_of_year (from 0)
MonthInYear(y, day_of_year) ==
    CHOOSE m \in 1..12 :
        /\ DaysBeforeMonth(y, m) <= day_of_year
        /\ day_of_year < DaysBeforeMonth(y, m) + DaysInMonth(y, m)

\* date.year, date.month, date.day
YearOf(n) == 2023 + 4 * (n \div 1461) + YearInCycle(n % 1461)

MonthOf(n) == MonthInYear(YearOf(n), n - DaysBeforeYear(YearOf(n)))

DayOf(n) == n - MkDate(YearOf(n), MonthOf(n), 1) + 1

\* the months from year 0 to the month of a date
MonthIndex(n) == 12 * YearOf(n) + MonthOf(n) - 1

\* day d of the month with index t, clamped to the length of that month
DateInMonth(t, d) ==
    MkDate(t \div 12, (t % 12) + 1, Min(d, DaysInMonth(t \div 12, (t % 12) + 1)))

\* d + relativedelta(months=k): the month moves, the day is clamped to the
\* length of the target month
AddMonths(n, k) == DateInMonth(MonthIndex(n) + k, DayOf(n))

\* d + relativedelta(days=k)
AddDays(n, k) == n + k

\* --------------------------------------------------------------- data model

\* PaymentFrequency
MONTHLY == "monthly"
BI_MONTHLY == "bi_monthly"
QUARTERLY == "quarterly"
PaymentFrequency == {MONTHLY, BI_MONTHLY, QUARTERLY}

\* PaymentStatus
UPCOMING == "upcoming"
PENDING == "pending"
ON_TIME == "on_time"
LATE == "late"
OVERDUE == "overdue"
WAIVED == "waived"
\* the status a tenant's receipt upload gives a payment (awaiting approval)
VERIFYING == "verifying"
PaymentStatus == {UPCOMING, PENDING, ON_TIME, LATE, OVERDUE, WAIVED, VERIFYING}

\* [ON_TIME, LATE, WAIVED]: the list the generator and the routers test
Finalized == {ON_TIME, LATE, WAIVED}

\* None, for a date, a schedule id or a payment id
NoDate == -1
NoId == 0
NoReference == "none"

\* ------------------------------------------------------------------- bounds

MaxPayments == 2

\* values of date.today() the clock is moved through
TodayValues ==
    { MkDate(2024, 1, 7), MkDate(2024, 1, 20), MkDate(2024, 3, 15) }

\* what create_tenant is called with: payment_frequency, payment_due_day,
\* payment_window_days and move_in_date (the schedule's start_date)
ScheduleChoices ==
    { <<MONTHLY,    5,  5, MkDate(2024, 1, 1)>>,
      <<BI_MONTHLY, 20, 5, MkDate(2024, 1, 15)>>,
      <<MONTHLY,    1,  3, MkDate(2023, 11, 30)>>,
      <<QUARTERLY,  28, 5, MkDate(2024, 8, 31)>> }

\* amounts, in hundredths of the currency unit (0: no payment_amount given)
Amounts == {50000}

\* ------------------------------------------------------- PeriodCalculator

get_frequency_months(frequency) ==
    IF frequency = MONTHLY THEN 1
    ELSE IF frequency = BI_MONTHLY THEN 2
    ELSE IF frequency = QUARTERLY THEN 3
    ELSE 1

\* the loop stopping only when period_end is after after_date
FindPeriodStart_StrictEnd(first_start, step, target_date) ==
    LET loop[current_period_start \in Nat] ==
          IF AddDays(AddMonths(current_period_start, step), -1) > target_date
          THEN current_period_start
          ELSE loop[AddMonths(current_period_start, step)]
    IN  loop[first_start]

\* the while loop of calculate_next_period: from start_date, advance
\* current_period_start by `months` until the period's end reaches after_date
FindPeriodStart(start_date, months, after_date) ==
    LET loop[current_period_start \in Nat] ==
          IF AddDays(AddMonths(current_period_start, months), -1) >= after_date
          THEN current_period_start
          ELSE loop[AddMonths(current_period_start, months)]
    IN  loop[start_date]

\* the period ending on the day the next one starts
PeriodFrom_EndIsNextStart(schedule, current_period_start, due_date) ==
    [ period_start    |-> current_period_start,
      period_end      |-> AddMonths(current_period_start,
                                    get_frequency_months(schedule.frequency)),
      due_date        |-> due_date,
      window_end_date |-> AddDays(due_date, schedule.window_days) ]

\* the tuple calculate_next_period returns for the period start the loop
\* ended with
PeriodFrom(schedule, current_period_start, due_date) ==
    [ period_start    |-> current_period_start,
      period_end      |-> AddDays(AddMonths(current_period_start,
                                    get_frequency_months(schedule.frequency)), -1),
      due_date        |-> due_date,
      window_end_date |-> AddDays(due_date, schedule.window_days) ]

\* due_date = date(current_period_start.year, current_period_start.month,
\* schedule.due_day)
DueDateIn(schedule, current_period_start) ==
    MkDate(YearOf(current_period_start), MonthOf(current_period_start),
           schedule.due_day)

\* date(year, month, day) raises ValueError when the month has no such day
DueDateRaises(schedule, current_period_start) ==
    schedule.due_day \notin
        1..DaysInMonth(YearOf(current_period_start), MonthOf(current_period_start))

PeriodStarting(schedule, current_period_start) ==
    PeriodFrom(schedule, current_period_start,
               DueDateIn(schedule, current_period_start))

\* (the loop's result is bound once: current_period_start is a value)
calculate_next_period(schedule, after_date) ==
    CHOOSE period \in
        { PeriodStarting(schedule, current_period_start) :
            current_period_start \in
                { FindPeriodStart(schedule.start_date,
                                  get_frequency_months(schedule.frequency),
                                  after_date) } } : TRUE

\* ------------------------------------------------------------------- state

VARIABLES
    today,      \* the clock: what date.today() returns
    tenants,    \* the tenants table, in insertion order: id = index
    schedules,  \* the payment_schedules table: id = index (deactivated is
                \* no column: it tells that is_active was set to false once)
    payments,   \* the payments table: id = index
    last        \* the last operation: its name, arguments, result and writes

vars == <<today, tenants, schedules, payments, last>>

\* the record kept of an engine call: sid and force are the arguments of a
\* generate_payment_for_schedule call; ret is the created payment's id (NoId
\* for None) or the returned count; again says that the operation before it
\* was a generate_payment_for_schedule call with the same arguments that
\* created a payment (this call is the second of two in succession)
Op(name, sid, force, ret, again) ==
    [ op |-> name, sid |-> sid, force |-> force, ret |-> ret, again |-> again ]

\* an operation outside the engine (the clock, a router's handler)
Other == Op("other", NoId, FALSE, 0, FALSE)

\* the ret of a call that an exception left instead of a return
Raised == -1

\* the response codes of the payment endpoints
HTTP_200_OK == 200
HTTP_400_BAD_REQUEST == 400

PaymentIds(store) == 1..Len(store)

\* select(Payment).where(Payment.schedule_id == sid)
PaymentsOf(store, sid) == { i \in PaymentIds(store) : store[i].schedule_id = sid }

\* .order_by(Payment.period_end.desc()).first(): a row with the largest
\* period_end (any of them when several tie), NoId when there is none
LatestPaymentIds(store, sid) ==
    IF PaymentsOf(store, sid) = {} THEN {NoId}
    ELSE { i \in PaymentsOf(store, sid) :
             \A j \in PaymentsOf(store, sid) :
                 store[j].period_end <= store[i].period_end }

\* ------------------------------------------------------ ProrationCalculator

\* round(num / den, 2) for amounts counted in hundredths: the nearest
\* hundredth of the quotient. Where the quotient lies exactly between two
\* hundredths the float that round() is given lies just below or just above
\* the middle, and either neighbour can come out.
RoundHundredths(num, den) ==
    LET q == (2 * num) \div den
    IN  IF (2 * num) % den = 0 /\ q % 2 = 1
        THEN { (q - 1) \div 2, (q + 1) \div 2 }
        ELSE { (q + 1) \div 2 }

\* remaining_days with the move-in day left out
RemainingDays_AfterMoveIn(days_in_month, day) == days_in_month - day

\* remaining_days = days_in_month - move_in_date.day + 1
RemainingDays(days_in_month, day) == days_in_month - day + 1

\* calculate_prorated_rent: the amount in hundredths and the due date (the
\* tuples it can return)
calculate_prorated_rent(monthly_rent, move_in_date) ==
    LET days_in_month == DaysInMonth(YearOf(move_in_date), MonthOf(move_in_date))
        remaining_days == RemainingDays(days_in_month, DayOf(move_in_date))
    IN  { [ amount |-> a, due_date |-> AddDays(move_in_date, 3) ] :
            a \in RoundHundredths(monthly_rent * remaining_days, days_in_month) }

\* the initial status of a prorated payment
ProratedStatus(tdy, due_date, window_end_date) ==
    IF tdy < due_date THEN UPCOMING
    ELSE IF tdy <= window_end_date THEN PENDING
    ELSE OVERDUE

\* the row create_prorated_payment builds from the tuple pr
ProratedRow(tenant_id, pr, move_in_date, tdy) ==
    LET y == YearOf(move_in_date)
        m == MonthOf(move_in_date)
        window_end_date == AddDays(pr.due_date, 3)
    IN  [ tenant_id       |-> tenant_id,
          schedule_id     |-> NoId,
          period_start    |-> move_in_date,
          period_end      |-> MkDate(y, m, DaysInMonth(y, m)),
          amount_due      |-> pr.amount,
          due_date        |-> pr.due_date,
          window_end_date |-> window_end_date,
          status          |-> ProratedStatus(tdy, pr.due_date, window_end_date),
          paid_date       |-> NoDate,
          payment_reference |-> NoReference,
          is_manual       |-> TRUE ]

\* create_prorated_payment without the test of the move-in day
ProratedPayment_AnyDay(tenant_id, monthly_rent, move_in_date, tdy) ==
    { << ProratedRow(tenant_id, pr, move_in_date, tdy) >> :
        pr \in calculate_prorated_rent(monthly_rent, move_in_date) }

\* create_prorated_payment: the rows it can add (none for a move-in on the
\* 1st to 5th)
ProratedPayment(tenant_id, monthly_rent, move_in_date, tdy) ==
    IF DayOf(move_in_date) <= 5 THEN { << >> }
    ELSE { << ProratedRow(tenant_id, pr, move_in_date, tdy) >> :
             pr \in calculate_prorated_rent(monthly_rent, move_in_date) }

\* --------------------------------------------------------- PaymentGenerator

\* should_generate testing the start of the latest period instead of its end
ShouldGenerate_PeriodStarted(latest_payment, tdy, force) ==
    \/ latest_payment.status \in Finalized
    \/ latest_payment.period_start < tdy
    \/ force

\* should_generate with OVERDUE taken for a settled status
ShouldGenerate_OverdueSettled(latest_payment, tdy, force) ==
    \/ latest_payment.status \in Finalized \cup {OVERDUE}
    \/ latest_payment.period_end < tdy
    \/ force

\* should_generate without the force argument
ShouldGenerate_ForceIgnored(latest_payment, tdy, force) ==
    \/ latest_payment.status \in Finalized
    \/ latest_payment.period_end < tdy

\* should_generate: the latest payment is paid or waived, or its period has
\* ended, or force
ShouldGenerate(latest_payment, tdy, force) ==
    \/ latest_payment.status \in Finalized
    \/ latest_payment.period_end < tdy
    \/ force

\* the candidate period: after the latest payment, or the first period
CandidatePeriod(store, schedule, latest) ==
    calculate_next_period(schedule,
        IF latest # NoId
        THEN AddDays(store[latest].period_end, 1)
        ELSE schedule.start_date)

\* max_future = today + relativedelta(months=get_frequency_months(...) * 2)
MaxFuture(schedule, tdy) ==
    AddMonths(tdy, get_frequency_months(schedule.frequency) * 2)

\* the max_future guard left out
TooFarInFuture_Never(period_start, schedule, tdy) == FALSE

\* period_start > max_future: too far in the future
TooFarInFuture(period_start, schedule, tdy) ==
    period_start > MaxFuture(schedule, tdy)

\* the existence check left out
PaymentExists_Skipped(store, sid, period_start) == FALSE

\* the existence check on (schedule_id, period_start)
PaymentExists(store, sid, period_start) ==
    \E i \in PaymentIds(store) :
        store[i].schedule_id = sid /\ store[i].period_start = period_start

\* the initial status left at the model's default
InitialStatus_Default(tdy, due_date, window_end) == UPCOMING

\* the initial status of a generated payment
InitialStatus(tdy, due_date, window_end) ==
    IF tdy < due_date THEN UPCOMING
    ELSE IF tdy <= window_end THEN PENDING
    ELSE OVERDUE

\* Payment(...) as generate_payment_for_schedule builds it
NewPayment(schedule, sid, per, tdy) ==
    [ tenant_id       |-> schedule.tenant_id,
      schedule_id     |-> sid,
      period_start    |-> per.period_start,
      period_end      |-> per.period_end,
      amount_due      |-> schedule.amount,
      due_date        |-> per.due_date,
      window_end_date |-> per.window_end_date,
      status          |-> InitialStatus(tdy, per.due_date, per.window_end_date),
      paid_date       |-> NoDate,
      payment_reference |-> NoReference,
      is_manual       |-> FALSE ]

\* the guards on the candidate period and the insertion
PaymentForPeriod(store, schedule, sid, per, tdy) ==
    IF TooFarInFuture(per.period_start, schedule, tdy) THEN << >>
    ELSE IF PaymentExists(store, sid, per.period_start) THEN << >>
    ELSE << NewPayment(schedule, sid, per, tdy) >>

\* the is_active guard of generate_payment_for_schedule left out
generate_payment_for_schedule_AnySchedule(store, schedule, sid, latest, force, tdy) ==
    IF latest # NoId /\ ~ShouldGenerate(store[latest], tdy, force) THEN << >>
    ELSE PaymentForPeriod(store, schedule, sid,
                          CandidatePeriod(store, schedule, latest), tdy)

\* generate_payment_for_schedule(schedule, session, force): the rows it adds,
\* << >> where it returns None; latest is the row the latest-payment query
\* returned
generate_payment_for_schedule(store, schedule, sid, latest, force, tdy) ==
    IF ~schedule.is_active THEN << >>
    ELSE IF latest # NoId /\ ~ShouldGenerate(store[latest], tdy, force) THEN << >>
    ELSE CHOOSE added \in
             { PaymentForPeriod(store, schedule, sid, per, tdy) :
                 per \in { CandidatePeriod(store, schedule, latest) } } : TRUE

\* generate_payment_for_schedule(schedule, session, force) raises: it comes to
\* calculate_next_period, whose date(...) raises ValueError
GenerationRaises(store, schedule, latest, force, tdy) ==
    /\ schedule.is_active
    /\ latest # NoId => ShouldGenerate(store[latest], tdy, force)
    /\ \E current_period_start \in
            { FindPeriodStart(schedule.start_date,
                              get_frequency_months(schedule.frequency),
                              IF latest # NoId
                              THEN AddDays(store[latest].period_end, 1)
                              ELSE schedule.start_date) } :
           DueDateRaises(schedule, current_period_start)

\* generate_all_due_payments: the store after the loop has handled schedules
\* k, k+1, ...; latest[k] is the row the latest-payment query returns for k
RECURSIVE GenerateAllFrom(_, _, _, _, _, _)
GenerateAllFrom(store, scheds, tens, k, latest, tdy) ==
    IF k > Len(scheds) THEN store
    ELSE
        LET schedule == scheds[k]
            tenant == tens[schedule.tenant_id]
            added ==
                IF ~schedule.is_active THEN << >>
                ELSE IF ~tenant.is_active THEN << >>
                ELSE generate_payment_for_schedule(store, schedule, k, latest[k],
                                                   FALSE, tdy)
        IN  GenerateAllFrom(store \o added, scheds, tens, k + 1, latest, tdy)

\* generate_all_due_payments raises: the call for one of the schedules k,
\* k+1, ... raises, and nothing in the loop catches it
RECURSIVE GenerateAllRaises(_, _, _, _, _, _)
GenerateAllRaises(store, scheds, tens, k, latest, tdy) ==
    IF k > Len(scheds) THEN FALSE
    ELSE
        LET schedule == scheds[k]
            tenant == tens[schedule.tenant_id]
            skipped == ~schedule.is_active \/ ~tenant.is_active
        IN  IF skipped
            THEN GenerateAllRaises(store, scheds, tens, k + 1, latest, tdy)
            ELSE IF GenerationRaises(store, schedule, latest[k], FALSE, tdy)
            THEN TRUE
            ELSE GenerateAllRaises(
                     store \o generate_payment_for_schedule(store, schedule, k,
                                                            latest[k], FALSE, tdy),
                     scheds, tens, k + 1, latest, tdy)

\* -------------------------------------------------------- StatusTransitioner

\* the selection widened to every payment that is not paid or waived
IsUnpaid_NotFinalized(payment) == payment.status \notin Finalized

\* the rows update_payment_statuses selects
IsUnpaid(payment) == payment.status \in {UPCOMING, PENDING}

\* new_status with the due date itself still counted as before the window
NewStatus_DueDayExcluded(payment, tdy) ==
    IF tdy <= payment.due_date THEN UPCOMING
    ELSE IF tdy <= payment.window_end_date THEN PENDING
    ELSE OVERDUE

\* new_status of update_payment_statuses for a selected row
NewStatus(payment, tdy) ==
    IF tdy < payment.due_date THEN UPCOMING
    ELSE IF tdy <= payment.window_end_date THEN PENDING
    ELSE OVERDUE

\* the ids update_payment_statuses writes
StatusUpdates_AllSelected(store, tdy) ==
    { i \in PaymentIds(store) : IsUnpaid(store[i]) }

\* the rows update_payment_statuses writes and counts: selected, and with a
\* new status that differs from the current one
StatusUpdates(store, tdy) ==
    { i \in PaymentIds(store) :
        IsUnpaid(store[i]) /\ NewStatus(store[i], tdy) # store[i].status }

\* ------------------------------------------------------------------ actions

Init ==
    /\ today \in TodayValues
    /\ tenants = << >>
    /\ schedules = << >>
    /\ payments = << >>
    /\ last = Op("init", NoId, FALSE, 0, FALSE)

\* the clock moves to another day (forwards, or backwards after a correction)
SetToday ==
    \E d \in TodayValues \ {today} :
        /\ today' = d
        /\ last' = Other
        /\ UNCHANGED <<tenants, schedules, payments>>

\* POST /tenants: a tenant, and a payment schedule when payment_amount is given
\* (start_date = move_in_date)
create_tenant ==
    \E choice \in ScheduleChoices, payment_amount \in Amounts \cup {0} :
        /\ tenants = << >>  \* one tenancy is followed: tenants share no rows
        /\ tenants' = Append(tenants,
                [ is_active |-> TRUE, move_in_date |-> choice[4] ])
        /\ schedules' =
             IF payment_amount # 0
             THEN Append(schedules,
                    [ tenant_id   |-> Len(tenants) + 1,
                      amount      |-> payment_amount,
                      frequency   |-> choice[1],
                      due_day     |-> choice[2],
                      window_days |-> choice[3],
                      start_date  |-> choice[4],
                      is_active   |-> TRUE,
                      deactivated |-> FALSE ])
             ELSE schedules
        /\ last' = Other
        /\ UNCHANGED <<today, payments>>

\* POST /tenants/{id}/move-out
move_out_tenant ==
    \E tid \in 1..Len(tenants) :
        /\ tenants[tid].is_active
        /\ tenants' = [tenants EXCEPT ![tid].is_active = FALSE]
        /\ schedules' =
             [ k \in 1..Len(schedules) |->
                 IF schedules[k].tenant_id = tid /\ schedules[k].is_active
                 THEN [schedules[k] EXCEPT !.is_active = FALSE,
                                           !.deactivated = TRUE]
                 ELSE schedules[k] ]
        /\ last' = Other
        /\ UNCHANGED <<today, payments>>

\* a call of generate_payment_for_schedule(schedule, session, force)
GeneratePaymentForSchedule ==
    \E sid \in 1..Len(schedules), force \in BOOLEAN :
      \E latest \in LatestPaymentIds(payments, sid) :
        IF GenerationRaises(payments, schedules[sid], latest, force, today)
        THEN /\ last' = Op("generate", sid, force, Raised, FALSE)
             /\ UNCHANGED <<today, tenants, schedules, payments>>
        ELSE
        \E added \in { generate_payment_for_schedule(payments, schedules[sid], sid,
                                                     latest, force, today) } :
            /\ Len(payments) + Len(added) <= MaxPayments
            /\ payments' = payments \o added
            /\ last' = Op("generate", sid, force,
                          IF added = << >> THEN NoId ELSE Len(payments) + 1,
                          /\ last.op = "generate"
                          /\ last.sid = sid
                          /\ last.force = force
                          /\ last.ret \notin {NoId, Raised})
            /\ UNCHANGED <<today, tenants, schedules>>

\* a call of generate_all_due_payments(session)
GenerateAllDuePayments ==
    \E latest \in [1..Len(schedules) -> 0..Len(payments)] :
        /\ \A k \in 1..Len(schedules) : latest[k] \in LatestPaymentIds(payments, k)
        /\ IF GenerateAllRaises(payments, schedules, tenants, 1, latest, today)
           THEN \* the exception leaves the call before session.commit()
                /\ payments' = payments
                /\ last' = Op("generate_all", NoId, FALSE, Raised, FALSE)
           ELSE
           \E store \in { GenerateAllFrom(payments, schedules, tenants, 1, latest,
                                          today) } :
               /\ Len(store) <= MaxPayments
               /\ payments' = store
               /\ last' = Op("generate_all", NoId, FALSE, Len(store) - Len(payments), FALSE)
        /\ UNCHANGED <<today, tenants, schedules>>

\* a call of create_prorated_payment for a tenant's move-in, with the rent
\* of the tenant's room
CreateProratedPayment ==
    \E tid \in 1..Len(tenants), monthly_rent \in Amounts :
        \E added \in ProratedPayment(tid, monthly_rent, tenants[tid].move_in_date,
                                     today) :
            /\ Len(payments) + Len(added) <= MaxPayments
            /\ payments' = payments \o added
            /\ last' = Op("create_prorated", NoId, FALSE,
                          IF added = << >> THEN NoId ELSE Len(payments) + 1, FALSE)
            /\ UNCHANGED <<today, tenants, schedules>>

\* a call of update_payment_statuses(session)
UpdatePaymentStatuses ==
    LET updated == StatusUpdates(payments, today)
    IN  /\ payments' =
             [ i \in PaymentIds(payments) |->
                 IF i \in updated
                 THEN [payments[i] EXCEPT !.status = NewStatus(payments[i], today)]
                 ELSE payments[i] ]
        /\ last' = Op("update_statuses", NoId, FALSE, Cardinality(updated), FALSE)
        /\ UNCHANGED <<today, tenants, schedules>>

\* values of PaymentMarkPaid.paid_date (NoDate: not supplied)
PaidDates == {NoDate, MkDate(2024, 1, 12)}

\* values of PaymentMarkPaid.payment_reference
References == {"receipt"}

\* the status mark_payment_paid gives: the payment's previous status counted
\* too (a payment already overdue is late whenever it is paid)
PaidStatus_OverdueIsLate(payment, paid_date) ==
    IF payment.status # OVERDUE /\ paid_date <= payment.window_end_date
    THEN ON_TIME ELSE LATE

\* the status mark_payment_paid gives
PaidStatus(payment, paid_date) ==
    IF paid_date <= payment.window_end_date THEN ON_TIME ELSE LATE

\* the paid / waived guard of the two endpoints left out
AlreadySettled_Never(payment) == FALSE

\* the guard of mark_payment_paid and waive_payment: already paid or waived
AlreadySettled(payment) == payment.status \in {ON_TIME, LATE, WAIVED}

\* the response of mark_payment_paid and of waive_payment for a payment:
\* the HTTPException raised by the guard, or the payment returned
StatusCode(payment) ==
    IF AlreadySettled(payment) THEN HTTP_400_BAD_REQUEST ELSE HTTP_200_OK

\* PUT /payments/{id}/mark-paid with the body's paid_date (NoDate when the
\* body has none) and payment_reference
MarkPaymentPaid(payment_id, supplied, payment_reference) ==
    /\ payment_id \in PaymentIds(payments)
    /\ last' = Other
    /\ IF StatusCode(payments[payment_id]) = HTTP_400_BAD_REQUEST
       THEN payments' = payments
       ELSE \E paid_date \in { IF supplied # NoDate THEN supplied ELSE today } :
                payments' =
                     [payments EXCEPT
                        ![payment_id].status =
                            PaidStatus(payments[payment_id], paid_date),
                        ![payment_id].paid_date = paid_date,
                        ![payment_id].payment_reference = payment_reference]
    /\ UNCHANGED <<today, tenants, schedules>>

mark_payment_paid ==
    \E pid \in PaymentIds(payments), supplied \in PaidDates,
       payment_reference \in References :
        MarkPaymentPaid(pid, supplied, payment_reference)

\* PUT /payments/{id}/waive
WaivePayment(payment_id) ==
    /\ payment_id \in PaymentIds(payments)
    /\ last' = Other
    /\ IF StatusCode(payments[payment_id]) = HTTP_400_BAD_REQUEST
       THEN payments' = payments
       ELSE payments' = [payments EXCEPT ![payment_id].status = WAIVED]
    /\ UNCHANGED <<today, tenants, schedules>>

waive_payment ==
    \E pid \in PaymentIds(payments) : WaivePayment(pid)

\* POST /payments/{id}/upload-receipt: the tenant uploads a receipt and the
\* payment awaits the landlord's approval
upload_receipt ==
    \E pid \in PaymentIds(payments) :
        /\ IF payments[pid].status \in Finalized
           THEN /\ payments' = payments
                /\ last' = Other
           ELSE /\ payments' = [payments EXCEPT ![pid].status = VERIFYING]
                /\ last' = Other
        /\ UNCHANGED <<today, tenants, schedules>>

Next ==
    \/ SetToday
    \/ create_tenant
    \/ move_out_tenant
    \/ GeneratePaymentForSchedule
    \/ GenerateAllDuePayments
    \/ CreateProratedPayment
    \/ UpdatePaymentStatuses
    \/ mark_payment_paid
    \/ waive_payment
    \/ upload_receipt

Spec == Init /\ [][Next]_vars

\* ------------------------------------------------- schedule administration

\* None, for an optional field of a request
NotGiven == "none"

\* what PUT /tenants/{id}/schedule is called with: the frequency and is_active
\* fields of PaymentScheduleUpdate (the others not given; is_active as the
\* JSON value "true" or "false")
ScheduleUpdates ==
    { [ frequency |-> f, is_active |-> NotGiven ] : f \in PaymentFrequency }
    \cup { [ frequency |-> NotGiven, is_active |-> "false" ],
           [ frequency |-> NotGiven, is_active |-> "true" ] }

\* PUT /tenants/{id}/schedule
UpdateTenantSchedule(tenant_id, update_data) ==
    \E sid \in 1..Len(schedules) :
        /\ schedules[sid].tenant_id = tenant_id
        /\ schedules' =
             [schedules EXCEPT
                ![sid].frequency =
                    IF update_data.frequency # NotGiven
                    THEN update_data.frequency ELSE @,
                ![sid].is_active =
                    IF update_data.is_active # NotGiven
                    THEN update_data.is_active = "true" ELSE @,
                ![sid].deactivated = @ \/ update_data.is_active = "false"]
        /\ last' = Other
        /\ UNCHANGED <<today, tenants, payments>>

update_tenant_schedule ==
    \E tid \in 1..Len(tenants), update_data \in ScheduleUpdates :
        UpdateTenantSchedule(tid, update_data)

\* the generator and the status engine under a landlord who also edits the
\* schedules between runs
NextReschedule ==
    \/ SetToday
    \/ create_tenant
    \/ update_tenant_schedule
    \/ GeneratePaymentForSchedule
    \/ GenerateAllDuePayments
    \/ UpdatePaymentStatuses
    \/ waive_payment

SpecReschedule == Init /\ [][NextReschedule]_vars

\* ------------------------------------------------------------------- claims

\* C1: after any sequence of generator calls (single or batch, with or
\* without force, on any day), interleaved with mark-paid, waive and status
\* updates, the store holds at most one payment per (schedule_id,
\* period_start) with a schedule_id.
C1_OnePaymentPerSchedulePeriod ==
    \A i, j \in PaymentIds(payments) :
        ( /\ i # j
          /\ payments[i].schedule_id # NoId
          /\ payments[i].schedule_id = payments[j].schedule_id )
        => payments[i].period_start # payments[j].period_start

\* a generator call found the candidate period already stored and returned
\* None, next to a schedule that holds two payments
C1_Witness ==
    /\ last.op = "generate"
    /\ last.ret = NoId
    /\ schedules[last.sid].is_active
    /\ Cardinality(PaymentsOf(payments, last.sid)) >= 2
    /\ \E latest \in LatestPaymentIds(payments, last.sid), force \in BOOLEAN :
          /\ ShouldGenerate(payments[latest], today, force)
          /\ LET per == CandidatePeriod(payments, schedules[last.sid], latest)
             IN  /\ ~TooFarInFuture(per.period_start, schedules[last.sid], today)
                 /\ PaymentExists(payments, last.sid, per.period_start)

\* the payment the first of two successive generator calls created
FirstCallPayment ==
    IF last.ret = NoId THEN payments[Len(payments)] ELSE payments[last.ret - 1]

\* C2 as stated: of two successive generate_payment_for_schedule calls for
\* the same schedule on the same day, with nothing in between, the first
\* creating a payment, the second returns None and creates nothing.
C2_SecondCallReturnsNone ==
    (last.op = "generate" /\ last.again /\ ~last.force) => last.ret = NoId

\* C2 as amended: the second call returns None whenever the period of the
\* payment the first call created has not ended (period_end >= today).
C2_SecondCallReturnsNoneInOpenPeriod ==
    ( /\ last.op = "generate"
      /\ last.again
      /\ ~last.force
      /\ FirstCallPayment.period_end >= today )
    => last.ret = NoId

\* the second of two successive calls returned None, the first call's
\* payment being in a period that has not ended
C2_Witness ==
    /\ last.op = "generate"
    /\ last.again
    /\ ~last.force
    /\ last.ret = NoId
    /\ FirstCallPayment.period_end >= today
    /\ FirstCallPayment.schedule_id = last.sid

\* a step of update_payment_statuses
IsStatusUpdateStep == last'.op = "update_statuses" /\ vars' # vars

\* C3: update_payment_statuses changes only payments that are UPCOMING or
\* PENDING: whatever today is, a payment that is ON_TIME, LATE, WAIVED,
\* VERIFYING or OVERDUE keeps its status and every other field, and the
\* returned count counts only UPCOMING and PENDING payments whose status changed.
C3_UpdateTouchesOnlyUnpaid ==
    [][ IsStatusUpdateStep =>
          /\ Len(payments') = Len(payments)
          /\ \A i \in PaymentIds(payments) :
                payments[i].status \in {ON_TIME, LATE, WAIVED, VERIFYING, OVERDUE}
                => payments'[i] = payments[i]
          /\ last'.ret =
                Cardinality({ i \in PaymentIds(payments) :
                                /\ payments[i].status \in {UPCOMING, PENDING}
                                /\ payments'[i] # payments[i] }) ]_vars

\* update_payment_statuses has run on a day inside the window of an OVERDUE
\* payment (the clock was moved back) and of a VERIFYING one
C3_Witness ==
    /\ last.op = "update_statuses"
    /\ \E i \in PaymentIds(payments) :
          /\ payments[i].status = OVERDUE
          /\ today <= payments[i].window_end_date
    /\ \E i \in PaymentIds(payments) :
          /\ payments[i].status = VERIFYING
          /\ today > payments[i].window_end_date

\* C4: no update_payment_statuses call, whatever today is, moves a payment
\* from PENDING back to UPCOMING or from OVERDUE back to PENDING or UPCOMING.
C4_StatusNeverMovesBack ==
    [][ IsStatusUpdateStep =>
          \A i \in PaymentIds(payments) :
              /\ ~(payments[i].status = PENDING /\ payments'[i].status = UPCOMING)
              /\ ~(payments[i].status = OVERDUE
                     /\ payments'[i].status \in {PENDING, UPCOMING}) ]_vars

CreatedIds ==
    IF last.op \in {"generate", "create_prorated"} /\ last.ret \notin {NoId, Raised}
    THEN {last.ret}
    ELSE IF last.op = "generate_all"
    THEN (Len(payments) - last.ret + 1)..Len(payments)
    ELSE {}

\* the payments the schedule of the last generate_payment_for_schedule call
\* had before the call
PriorIds == PaymentsOf(payments, last.sid) \ CreatedIds

\* the latest of them (largest period_end)
PriorLatest ==
    payments[CHOOSE i \in PriorIds :
                \A j \in PriorIds : payments[j].period_end <= payments[i].period_end]

\* the period fields of a payment
PeriodOf(p) ==
    [ period_start    |-> p.period_start,
      period_end      |-> p.period_end,
      due_date        |-> p.due_date,
      window_end_date |-> p.window_end_date ]

\* C6: without force, generate_payment_for_schedule on a schedule that has
\* payments creates the next payment only if the latest payment is ON_TIME,
\* LATE or WAIVED or its period_end < today (so with the latest UPCOMING,
\* PENDING, OVERDUE or VERIFYING and period_end >= today it creates nothing),
\* and the payment it creates has the period calculate_next_period returns
\* for latest.period_end + 1 day.
C6_GeneratesOnlyWhenDue ==
    ( /\ last.op = "generate"
      /\ ~last.force
      /\ last.ret # NoId
      /\ PriorIds # {} )
    => /\ PriorLatest.status \in {ON_TIME, LATE, WAIVED}
          \/ PriorLatest.period_end < today
       /\ PeriodOf(payments[last.ret]) =
             calculate_next_period(schedules[last.sid],
                                   AddDays(PriorLatest.period_end, 1))

\* an unforced call has created the next payment after a paid one whose
\* period has not ended
C6_Witness ==
    /\ last.op = "generate"
    /\ ~last.force
    /\ last.ret # NoId
    /\ PriorIds # {}
    /\ PriorLatest.status = ON_TIME
    /\ PriorLatest.period_end >= today

\* C7: no generator call, forced or not, creates a payment whose
\* period_start is later than today + 2 * (months per period); it returns
\* None instead.
C7_NothingBeyondTwoPeriods ==
    \A i \in CreatedIds :
        payments[i].schedule_id # NoId
        => payments[i].period_start <=
              AddMonths(today,
                  2 * get_frequency_months(schedules[payments[i].schedule_id].frequency))

\* a forced call for an active schedule without payments, whose start_date
\* is more than two periods ahead, has returned None
C7_Witness ==
    /\ last.op = "generate"
    /\ last.force
    /\ last.ret = NoId
    /\ schedules[last.sid].is_active
    /\ PaymentsOf(payments, last.sid) = {}
    /\ schedules[last.sid].start_date >
          AddMonths(today, 2 * get_frequency_months(schedules[last.sid].frequency))

\* C8: a newly generated schedule payment and a newly created prorated
\* payment are UPCOMING if today < due_date, PENDING if due_date <= today <=
\* window_end_date and OVERDUE if today > window_end_date; a schedule payment
\* has is_manual false and the schedule's id, tenant_id and amount.
C8_InitialStatusAndOrigin ==
    \A i \in CreatedIds :
        LET p == payments[i]
        IN  /\ today < p.due_date => p.status = UPCOMING
            /\ (p.due_date <= today /\ today <= p.window_end_date)
                  => p.status = PENDING
            /\ today > p.window_end_date => p.status = OVERDUE
            /\ last.op = "generate" => p.schedule_id = last.sid
            /\ last.op # "create_prorated"
                  => /\ ~p.is_manual
                     /\ p.schedule_id \in 1..Len(schedules)
                     /\ p.tenant_id = schedules[p.schedule_id].tenant_id
                     /\ p.amount_due = schedules[p.schedule_id].amount

\* a schedule payment has just been created PENDING, next to a prorated
\* payment that was created OVERDUE
C8_Witness ==
    /\ last.op = "generate"
    /\ last.ret # NoId
    /\ payments[last.ret].status = PENDING
    /\ \E j \in PaymentIds(payments) :
          /\ payments[j].is_manual
          /\ payments[j].status = OVERDUE

\* ------------------------------------------- the period calculator alone

\* the schedules and dates calculate_next_period is applied to
PeriodStartDates ==
    { MkDate(2023, 1, 31), MkDate(2023, 11, 30), MkDate(2023, 12, 31),
      MkDate(2024, 1, 1),  MkDate(2024, 1, 15),  MkDate(2024, 1, 29),
      MkDate(2024, 1, 30), MkDate(2024, 1, 31),  MkDate(2024, 2, 29),
      MkDate(2024, 8, 31) }

PeriodDueDays == {1, 15, 28}

AfterOffsets == {-10, -1, 0, 1, 27, 28, 29, 30, 31, 58, 59, 60, 61, 89, 90,
                 91, 120, 200, 365}

\* how many periods of a schedule the claims look through
MaxPeriods == 24

\* a schedule is stored and an after_date chosen
InitPeriod ==
    \E start_date \in PeriodStartDates, frequency \in PaymentFrequency,
       due_day \in PeriodDueDays, offset \in AfterOffsets :
        /\ today = MkDate(2024, 1, 7)
        /\ tenants = << [ is_active |-> TRUE, move_in_date |-> start_date ] >>
        /\ schedules = << [ tenant_id   |-> 1,
                            amount      |-> 50000,
                            frequency   |-> frequency,
                            due_day     |-> due_day,
                            window_days |-> 5,
                            start_date  |-> start_date,
                            is_active   |-> TRUE ] >>
        /\ payments = << >>
        /\ last = [ op |-> "input", after_date |-> AddDays(start_date, offset) ]

\* calculate_next_period(schedule, after_date)
CalculateNextPeriod ==
    /\ last.op = "input"
    /\ last' = [ op         |-> "calculate_next_period",
                 after_date |-> last.after_date,
                 ret        |-> calculate_next_period(schedules[1],
                                                      last.after_date) ]
    /\ UNCHANGED <<today, tenants, schedules, payments>>

NextPeriod == CalculateNextPeriod

SpecPeriod == InitPeriod /\ [][NextPeriod]_vars

\* start_date + k * f months
DirectStart(start_date, f, k) == AddMonths(start_date, k * f)

\* start_date advanced k times by f months
RepeatedStart(start_date, f, k) ==
    LET advance[d \in Nat] == AddMonths(d, f)
        start[j \in 0..k] == IF j = 0 THEN start_date ELSE advance[start[j - 1]]
    IN  start[k]

\* what C9 says of the other fields of the result r for schedule s and
\* after_date a
PeriodShape(s, a, r) ==
    LET f == get_frequency_months(s.frequency)
    IN  /\ r.period_end = AddDays(AddMonths(r.period_start, f), -1)
        /\ r.due_date = MkDate(YearOf(r.period_start), MonthOf(r.period_start),
                               s.due_day)
        /\ r.window_end_date = AddDays(r.due_date, s.window_days)
        /\ a >= s.start_date => (r.period_start <= a /\ a <= r.period_end)
        /\ a < s.start_date => r.period_start = s.start_date

\* C9 (as stated): calculate_next_period returns the first period of the
\* sequence start_date, start_date + f months, start_date + 2f months, ...
\* whose period_end >= after_date, with period_end = period_start + f months
\* - 1 day, due_date on due_day of period_start's month, window_end_date =
\* due_date + window_days; the period contains after_date when after_date >=
\* start_date and is the first period when after_date < start_date.
C9_FirstPeriodOfMultiples ==
    last.op = "calculate_next_period"
    => LET s == schedules[1]
           f == get_frequency_months(s.frequency)
           a == last.after_date
           r == last.ret
       IN  /\ \E k \in 0..MaxPeriods :
                 /\ r.period_start = DirectStart(s.start_date, f, k)
                 /\ r.period_end >= a
                 /\ \A j \in 0..(k - 1) :
                       AddDays(AddMonths(DirectStart(s.start_date, f, j), f), -1) < a
           /\ PeriodShape(s, a, r)

\* C9 (amended): the same, for the sequence in which every period_start is
\* the one before it plus f months (start_date, then repeatedly advanced),
\* which is start_date + k * f months when start_date's day is at most 28.
C9_FirstPeriodOfRepeatedAdvance ==
    last.op = "calculate_next_period"
    => LET s == schedules[1]
           f == get_frequency_months(s.frequency)
           a == last.after_date
           r == last.ret
       IN  /\ \E k \in 0..MaxPeriods :
                 /\ r.period_start = RepeatedStart(s.start_date, f, k)
                 /\ r.period_end >= a
                 /\ \A j \in 0..(k - 1) :
                       AddDays(AddMonths(RepeatedStart(s.start_date, f, j), f), -1) < a
           /\ PeriodShape(s, a, r)

\* the calculator has returned a later period of a schedule that starts on
\* the 31st, after a shorter month has clamped the day
C9_Witness ==
    /\ last.op = "calculate_next_period"
    /\ DayOf(schedules[1].start_date) = 31
    /\ last.after_date > schedules[1].start_date
    /\ last.ret.period_start > schedules[1].start_date
    /\ DayOf(last.ret.period_start) < 31
    /\ last.ret.period_start # AddMonths(schedules[1].start_date,
          12 * (YearOf(last.ret.period_start) - YearOf(schedules[1].start_date))
          + MonthOf(last.ret.period_start) - MonthOf(schedules[1].start_date))

\* C10: every payment the engine creates has period_end >= period_start and
\* period_start <= due_date <= period_end.
C10_DueDateWithinPeriod ==
    \A i \in PaymentIds(payments) :
        /\ payments[i].period_end >= payments[i].period_start
        /\ payments[i].period_start <= payments[i].due_date
        /\ payments[i].due_date <= payments[i].period_end

\* the latest day a generated period may start on: today + 2 periods
LastAllowedStart(schedule) ==
    AddMonths(today, 2 * get_frequency_months(schedule.frequency))

\* the schedule of the last generate_payment_for_schedule call holds a
\* payment, other than the one just created, that starts on period_start
StartsTaken(period_start) ==
    \E i \in PriorIds : payments[i].period_start = period_start

\* C12: with force, generate_payment_for_schedule creates the next period's
\* payment whatever the latest payment's status and period, and returns None
\* only when the schedule is inactive, the candidate period starts after
\* today + 2 periods, or a payment of the schedule already starts on the
\* candidate period_start; in those three cases it creates nothing.
C12_ForceKeepsTheGuards ==
    (last.op = "generate" /\ last.force)
    => /\ last.ret # NoId
          => /\ schedules[last.sid].is_active
             /\ payments[last.ret].period_start
                   <= LastAllowedStart(schedules[last.sid])
             /\ ~StartsTaken(payments[last.ret].period_start)
       /\ last.ret = NoId
          => \/ ~schedules[last.sid].is_active
             \/ \E latest \in LatestPaymentIds(payments, last.sid) :
                  LET candidate ==
                        calculate_next_period(schedules[last.sid],
                            IF latest # NoId
                            THEN AddDays(payments[latest].period_end, 1)
                            ELSE schedules[last.sid].start_date).period_start
                  IN  \/ candidate > LastAllowedStart(schedules[last.sid])
                      \/ StartsTaken(candidate)

\* a forced call has created the next payment although the latest one is
\* unpaid and its period has not ended
C12_Witness ==
    /\ last.op = "generate"
    /\ last.force
    /\ last.ret # NoId
    /\ PriorIds # {}
    /\ PriorLatest.status \in {UPCOMING, PENDING, OVERDUE}
    /\ PriorLatest.period_end >= today

\* ----------------------------------------------------- the payment endpoints

\* update_payment_status without its check for a paid or waived payment
update_payment_status_AnyStatus(payment, tdy) ==
    IF tdy < payment.due_date THEN UPCOMING
    ELSE IF tdy <= payment.window_end_date THEN PENDING
    ELSE OVERDUE

\* update_payment_status(payment, today) of the payments router: the status
\* the read endpoints and create_manual_payment compute from the dates
update_payment_status(payment, tdy) ==
    IF payment.status \in {ON_TIME, LATE, WAIVED} THEN payment.status
    ELSE IF tdy < payment.due_date THEN UPCOMING
    ELSE IF tdy <= payment.window_end_date THEN PENDING
    ELSE OVERDUE

\* GET /payments/{id}: the status is refreshed and saved when it changed
GetPayment(payment_id) ==
    /\ payment_id \in PaymentIds(payments)
    /\ payments' = [payments EXCEPT ![payment_id].status =
                        update_payment_status(payments[payment_id], today)]
    /\ last' = Other
    /\ UNCHANGED <<today, tenants, schedules>>

get_payment ==
    \E pid \in PaymentIds(payments) : GetPayment(pid)

\* GET /payments: every payment listed is refreshed and saved
list_payments ==
    /\ payments' = [ i \in PaymentIds(payments) |->
                       [payments[i] EXCEPT !.status =
                            update_payment_status(payments[i], today)] ]
    /\ last' = Other
    /\ UNCHANGED <<today, tenants, schedules>>

\* bodies of PUT /payments/{id}: a new amount_due and due_date, or neither
\* (0, NoDate: the field is not given)
PaymentUpdates ==
    { [ amount_due |-> 45000, due_date |-> MkDate(2024, 1, 25) ],
      [ amount_due |-> 0,     due_date |-> NoDate ] }

\* PUT /payments/{id}
UpdatePayment(payment_id, update_data) ==
    /\ payment_id \in PaymentIds(payments)
    /\ payments' =
         [payments EXCEPT
            ![payment_id].amount_due =
                IF update_data.amount_due # 0 THEN update_data.amount_due ELSE @,
            ![payment_id].due_date =
                IF update_data.due_date # NoDate THEN update_data.due_date ELSE @]
    /\ last' = Other
    /\ UNCHANGED <<today, tenants, schedules>>

update_payment ==
    \E pid \in PaymentIds(payments), update_data \in PaymentUpdates :
        UpdatePayment(pid, update_data)

\* bodies of POST /payments/manual
ManualCharges ==
    { [ due_date     |-> MkDate(2024, 1, 18),
        period_start |-> MkDate(2024, 1, 1),
        period_end   |-> MkDate(2024, 1, 31) ] }

\* the row create_manual_payment inserts
ManualPayment(tenant_id, payment_data, amount_due, tdy) ==
    LET window_end_date == AddDays(payment_data.due_date, 5)
        payment == [ tenant_id       |-> tenant_id,
                     schedule_id     |-> NoId,
                     period_start    |-> payment_data.period_start,
                     period_end      |-> payment_data.period_end,
                     amount_due      |-> amount_due,
                     due_date        |-> payment_data.due_date,
                     window_end_date |-> window_end_date,
                     status          |-> UPCOMING,
                     paid_date       |-> NoDate,
                     payment_reference |-> NoReference,
                     is_manual       |-> TRUE ]
    IN  [payment EXCEPT !.status = update_payment_status(payment, tdy)]

\* POST /payments/manual
create_manual_payment ==
    \E tid \in 1..Len(tenants), payment_data \in ManualCharges,
       amount_due \in Amounts :
        /\ Len(payments) < MaxPayments
        /\ payments' = Append(payments,
                              ManualPayment(tid, payment_data, amount_due, today))
        /\ last' = Op("create_manual", NoId, FALSE, Len(payments) + 1, FALSE)
        /\ UNCHANGED <<today, tenants, schedules>>

\* the operations on a generated payment: the clock and the daily status
\* update, payment, waiver and correction by the landlord
NextLedger ==
    \/ SetToday
    \/ create_tenant
    \/ GeneratePaymentForSchedule
    \/ UpdatePaymentStatuses
    \/ mark_payment_paid
    \/ waive_payment
    \/ update_payment

SpecLedger == Init /\ [][NextLedger]_vars

\* generated and manual payments under the read endpoints, the daily status
\* update and the endpoints that settle them
NextReads ==
    \/ SetToday
    \/ create_tenant
    \/ GeneratePaymentForSchedule
    \/ create_manual_payment
    \/ UpdatePaymentStatuses
    \/ get_payment
    \/ list_payments
    \/ mark_payment_paid
    \/ waive_payment
    \/ upload_receipt

SpecReads == Init /\ [][NextReads]_vars

\* C11: every payment a schedule generated keeps window_end_date - due_date
\* equal to its schedule's window_days, at creation and after every later
\* operation on it (status updates, mark-paid, waive, update_payment).
C11_WindowIsWindowDays ==
    \A i \in PaymentIds(payments) :
        payments[i].schedule_id # NoId =>
            payments[i].window_end_date - payments[i].due_date
                = schedules[payments[i].schedule_id].window_days

\* ------------------------------------------------- two tenancies, one batch

\* the response codes of the tenant endpoints
HTTP_201_CREATED == 201

\* bodies of POST /tenants/{id}/schedule: <<frequency, due_day, window_days,
\* start_date>>; PaymentScheduleCreate accepts any integer as due_day
ScheduleBodies ==
    { <<MONTHLY, 5, 5, MkDate(2024, 1, 1)>>,
      <<MONTHLY, 31, 5, MkDate(2024, 2, 1)>> }

\* the active-schedule check of create_tenant_schedule left out
HasActiveSchedule_Never(scheds, tenant_id) == FALSE

\* select(PaymentSchedule).where(tenant_id == ..., is_active == True).first()
HasActiveSchedule(scheds, tenant_id) ==
    \E k \in 1..Len(scheds) : scheds[k].tenant_id = tenant_id /\ scheds[k].is_active

\* the unique index on payment_schedules.tenant_id rejects the insert
TenantIdTaken(scheds, tenant_id) ==
    \E k \in 1..Len(scheds) : scheds[k].tenant_id = tenant_id

\* POST /tenants/{id}/schedule
CreateTenantSchedule(tenant_id, schedule_data, amount) ==
    /\ tenant_id \in 1..Len(tenants)
    /\ IF HasActiveSchedule(schedules, tenant_id)
       THEN /\ schedules' = schedules
            /\ last' = Op("create_schedule", tenant_id, FALSE,
                          HTTP_400_BAD_REQUEST, FALSE)
       ELSE IF TenantIdTaken(schedules, tenant_id)
       THEN \* session.commit() raises IntegrityError
            /\ schedules' = schedules
            /\ last' = Op("create_schedule", tenant_id, FALSE, Raised, FALSE)
       ELSE /\ schedules' = Append(schedules,
                    [ tenant_id   |-> tenant_id,
                      amount      |-> amount,
                      frequency   |-> schedule_data[1],
                      due_day     |-> schedule_data[2],
                      window_days |-> schedule_data[3],
                      start_date  |-> schedule_data[4],
                      is_active   |-> TRUE,
                      deactivated |-> FALSE ])
            /\ last' = Op("create_schedule", tenant_id, FALSE,
                          HTTP_201_CREATED, FALSE)
    /\ UNCHANGED <<today, tenants, payments>>

create_tenant_schedule ==
    \E tid \in 1..Len(tenants), schedule_data \in ScheduleBodies,
       amount \in Amounts :
        CreateTenantSchedule(tid, schedule_data, amount)

\* PUT /tenants/{id}/schedule with is_active alone: the landlord pauses and
\* resumes the schedule
pause_or_resume_schedule ==
    \E tid \in 1..Len(tenants),
       update_data \in { u \in ScheduleUpdates : u.frequency = NotGiven } :
        UpdateTenantSchedule(tid, update_data)

\* two tenants created without a payment schedule (POST /tenants twice, no
\* payment_amount)
InitBatch ==
    /\ today \in TodayValues
    /\ tenants = << [ is_active |-> TRUE, move_in_date |-> MkDate(2024, 1, 1) ],
                    [ is_active |-> TRUE, move_in_date |-> MkDate(2024, 1, 1) ] >>
    /\ schedules = << >>
    /\ payments = << >>
    /\ last = Op("init", NoId, FALSE, 0, FALSE)

NextBatch ==
    \/ SetToday
    \/ create_tenant_schedule
    \/ pause_or_resume_schedule
    \/ move_out_tenant
    \/ GeneratePaymentForSchedule
    \/ GenerateAllDuePayments

SpecBatch == InitBatch /\ [][NextBatch]_vars

\* the payments a step inserts
NewIds == PaymentIds(payments') \ PaymentIds(payments)

\* a schedule generate_all_due_payments passes over: not selected, or its
\* tenant has moved out
Skipped(k) ==
    ~schedules[k].is_active \/ ~tenants[schedules[k].tenant_id].is_active

\* the call for schedule k would raise
Raises(k) ==
    \E latest \in LatestPaymentIds(payments, k) :
        GenerationRaises(payments, schedules[k], latest, FALSE, today)

\* an unforced call for schedule k would create a payment
Due(k) ==
    \E latest \in LatestPaymentIds(payments, k) :
        generate_payment_for_schedule(payments, schedules[k], k, latest, FALSE,
                                      today) # << >>

\* C13: generate_payment_for_schedule returns None and creates nothing for a
\* schedule whose is_active is false; a generate_all_due_payments run creates
\* no payment for a schedule that is inactive or whose tenant is inactive, and
\* creates one for every other schedule that is due.
C13_InactiveSchedulesGetNothing ==
    [][ /\ (last'.op = "generate" /\ ~schedules[last'.sid].is_active)
              => (last'.ret = NoId /\ payments' = payments)
        /\ (last'.op = "generate_all" /\ last'.ret # Raised)
              => /\ \A i \in NewIds : ~Skipped(payments'[i].schedule_id)
                 /\ last'.ret = Cardinality(NewIds)
                 /\ \A k \in 1..Len(schedules) :
                        (~Skipped(k) /\ Due(k))
                            => \E i \in NewIds : payments'[i].schedule_id = k ]_vars

\* a run has created a payment for one schedule and passed over the schedule
\* of a tenant who moved out, for which a payment was due
C13_Witness ==
    /\ last.op = "generate_all"
    /\ last.ret = 1
    /\ \E k \in 1..Len(schedules) :
          /\ ~tenants[schedules[k].tenant_id].is_active
          /\ ~DueDateRaises(schedules[k], schedules[k].start_date)
          /\ PaymentsOf(payments, k) = {}

\* C14: in a generate_all_due_payments run a schedule whose processing
\* raises does not stop the run: every other schedule that is due still gets
\* its payment.
C14_FailureIsIsolated ==
    [][ last'.op = "generate_all"
          => \A k \in 1..Len(schedules) :
                 (~Skipped(k) /\ ~Raises(k) /\ Due(k))
                     => \E i \in NewIds : payments'[i].schedule_id = k ]_vars

\* C19: a payment schedule that has been deactivated once (by the tenant's
\* move-out or by a schedule update) gets no payment from any later
\* generation call.
C19_DeactivatedNeverGeneratesAgain ==
    [][ \A i \in NewIds :
            payments'[i].schedule_id # NoId
                => ~schedules[payments'[i].schedule_id].deactivated ]_vars

\* the active schedules of a tenant
ActiveSchedules(scheds, tenant_id) ==
    { k \in 1..Len(scheds) : scheds[k].tenant_id = tenant_id /\ scheds[k].is_active }

\* C20: after every create-schedule, update-schedule and move-out step each
\* tenant has at most one active payment schedule, and a create-schedule call
\* for a tenant that has an active schedule answers 400 and creates nothing.
C20_AtMostOneActiveSchedule ==
    [][ /\ \A tid \in 1..Len(tenants) :
               Cardinality(ActiveSchedules(schedules', tid)) <= 1
        /\ (last'.op = "create_schedule"
               /\ ActiveSchedules(schedules, last'.sid) # {})
              => (last'.ret = HTTP_400_BAD_REQUEST /\ schedules' = schedules) ]_vars

\* a create-schedule call for a tenant with an active schedule was refused,
\* after the other tenant's schedule was paused and resumed
C20_Witness ==
    /\ last.op = "create_schedule"
    /\ last.ret = HTTP_400_BAD_REQUEST
    /\ Len(schedules) = 2
    /\ \A k \in 1..2 : schedules[k].is_active
    /\ \E k \in 1..2 : schedules[k].deactivated

\* C15: ON_TIME, LATE and WAIVED are absorbing. A payment with one of these
\* statuses is left exactly as it is by every step (the daily status update,
\* the refresh of the read endpoints, mark-paid, waive), and a mark-paid or
\* waive call on it answers 400 and changes no payment.
C15_SettledIsAbsorbing ==
    [][ \A i \in PaymentIds(payments) :
            payments[i].status \in {ON_TIME, LATE, WAIVED}
                => /\ payments'[i] = payments[i]
                   /\ ( \/ \E supplied \in PaidDates, reference \in References :
                              MarkPaymentPaid(i, supplied, reference)
                        \/ WaivePayment(i) )
                         => /\ StatusCode(payments[i]) = HTTP_400_BAD_REQUEST
                            /\ payments' = payments ]_vars

\* the daily update has run over a payment that was paid late, a waived one
\* would be overdue by the dates
C15_Witness ==
    /\ last.op = "update_statuses"
    /\ \E i \in PaymentIds(payments) :
          /\ payments[i].status \in {ON_TIME, WAIVED}
          /\ today > payments[i].window_end_date
    /\ \E i \in PaymentIds(payments) : payments[i].status = LATE

\* C16: mark_payment_paid on a payment that is not ON_TIME, LATE or WAIVED
\* sets the status to ON_TIME when paid_date <= window_end_date and to LATE
\* otherwise, paid_date being the date supplied or else today; it stores
\* paid_date and payment_reference and changes nothing else, whatever the
\* status was before.
C16_PaidStatusFollowsPaidDate ==
    [][ \A i \in PaymentIds(payments) :
          \A supplied \in PaidDates, reference \in References :
            ( /\ MarkPaymentPaid(i, supplied, reference)
              /\ payments[i].status \notin {ON_TIME, LATE, WAIVED} )
            => LET paid_date == IF supplied # NoDate THEN supplied ELSE today
               IN  payments' =
                     [payments EXCEPT
                        ![i].status = IF paid_date <= payments[i].window_end_date
                                      THEN ON_TIME ELSE LATE,
                        ![i].paid_date = paid_date,
                        ![i].payment_reference = reference] ]_vars

\* a payment whose window has long ended was marked paid with an earlier
\* paid_date and is ON_TIME, and another was paid today and is LATE
C16_Witness ==
    /\ last = Other
    /\ \E i \in PaymentIds(payments) :
          /\ payments[i].status = ON_TIME
          /\ payments[i].paid_date # today
          /\ payments[i].paid_date <= payments[i].window_end_date
          /\ payments[i].window_end_date < today
          /\ payments[i].payment_reference \in References
    /\ \E i \in PaymentIds(payments) :
          /\ payments[i].status = LATE
          /\ payments[i].paid_date = today

C18_CountsChangesAndSettles ==
    [][ (last'.op = "update_statuses")
          => /\ last'.ret =
                   Cardinality({ i \in PaymentIds(payments) :
                                    payments'[i].status # payments[i].status })
             /\ PaymentIds(payments') = PaymentIds(payments)
             /\ \A i \in PaymentIds(payments) :
                    payments'[i] = [payments[i] EXCEPT !.status = payments'[i].status]
             /\ last.op = "update_statuses"
                    => (payments' = payments /\ last'.ret = 0) ]_vars

\* a call has found payments to look at and none to change
C18_Witness ==
    /\ last.op = "update_statuses"
    /\ last.ret = 0
    /\ \E i \in PaymentIds(payments) :
          /\ payments[i].status = PENDING
          /\ today > payments[i].due_date
    /\ \E i \in PaymentIds(payments) : payments[i].status = UPCOMING

\* C21: create_prorated_payment creates nothing and returns None for a
\* move-in on the 1st to 5th; for a later day it creates exactly one payment,
\* with no schedule, is_manual true, period_start = move_in_date, period_end =
\* the last day of the move-in month, due_date = move_in_date + 3 days and
\* window_end_date = due_date + 3 days, whatever window_days a schedule has.
C21_ProratedPaymentShape ==
    [][ last'.op = "create_prorated"
          => \A tid \in 1..Len(tenants) :
                LET move_in_date == tenants[tid].move_in_date
                IN  IF DayOf(move_in_date) <= 5
                    THEN payments' = payments /\ last'.ret = NoId
                    ELSE /\ Len(payments') = Len(payments) + 1
                         /\ last'.ret = Len(payments')
                         /\ \A i \in PaymentIds(payments) : payments'[i] = payments[i]
                         /\ LET p == payments'[Len(payments')]
                            IN  /\ p.tenant_id = tid
                                /\ p.schedule_id = NoId
                                /\ p.is_manual
                                /\ p.period_start = move_in_date
                                /\ p.period_end >= move_in_date
                                /\ MonthIndex(p.period_end) = MonthIndex(move_in_date)
                                /\ MonthIndex(p.period_end + 1)
                                       = MonthIndex(move_in_date) + 1
                                /\ p.due_date = move_in_date + 3
                                /\ p.window_end_date = move_in_date + 6 ]_vars

\* a prorated payment was created for a tenant whose schedule has a window
\* of another length, with its due date in the month after the move-in
C21_Witness ==
    /\ last.op = "create_prorated"
    /\ last.ret # NoId
    /\ Len(schedules) = 1
    /\ schedules[1].window_days # 3
    /\ MonthOf(payments[last.ret].due_date) # MonthOf(payments[last.ret].period_start)

\* ------------------------------------------------ the proration rule alone

\* monthly rents, in hundredths
Rents == {1, 7, 100, 10001, 50000, 1234567}

\* the months the move-in dates are taken from: every day of each
ProrationMonths == { <<2023, 2>>, <<2023, 12>>, <<2024, 1>>, <<2024, 2>>, <<2024, 4>> }

\* a rent and a move-in date are chosen
InitProration ==
    \E monthly_rent \in Rents, ym \in ProrationMonths :
      \E day \in 1..DaysInMonth(ym[1], ym[2]) :
        /\ today = MkDate(2024, 1, 7)
        /\ tenants = << >>
        /\ schedules = << >>
        /\ payments = << >>
        /\ last = [ op           |-> "input",
                    monthly_rent |-> monthly_rent,
                    move_in_date |-> MkDate(ym[1], ym[2], day) ]

\* calculate_prorated_rent(monthly_rent, move_in_date)
CalculateProratedRent ==
    /\ last.op = "input"
    /\ \E ret \in calculate_prorated_rent(last.monthly_rent, last.move_in_date) :
           last' = [ op           |-> "calculate_prorated_rent",
                     monthly_rent |-> last.monthly_rent,
                     move_in_date |-> last.move_in_date,
                     ret          |-> ret ]
    /\ UNCHANGED <<today, tenants, schedules, payments>>

NextProration == CalculateProratedRent

SpecProration == InitProration /\ [][NextProration]_vars

UpdatedStore(store, tdy) ==
    [ i \in PaymentIds(store) |->
        IF i \in StatusUpdates(store, tdy)
        THEN [store[i] EXCEPT !.status = NewStatus(store[i], tdy)]
        ELSE store[i] ]

\* the stores generate_all_due_payments can leave: one for each answer the
\* latest-payment queries can give
GeneratedStores(store, tdy) ==
    { GenerateAllFrom(store, schedules, tenants, 1, latest, tdy) :
        latest \in { l \in [1..Len(schedules) -> 0..Len(store)] :
                       \A k \in 1..Len(schedules) :
                           l[k] \in LatestPaymentIds(store, k) } }

Sessions == {1, 2}

\* what the sessions hold: where each stands in generate_all_due_payments
\* and the rows it has added but not committed
SessionsState(pc, added) ==
    [ op |-> "sessions", pc |-> pc, added |-> added ]

\* the INSERT of a payments row: the table has a primary key on id and no
\* other unique constraint, so every row is accepted
InsertAccepted(store, row) == TRUE

\* one tenancy with an active schedule, and both sessions about to start
InitSessions ==
    \E choice \in ScheduleChoices :
        /\ today \in TodayValues
        /\ tenants = << [ is_active |-> TRUE, move_in_date |-> choice[4] ] >>
        /\ schedules = << [ tenant_id   |-> 1,
                            amount      |-> 50000,
                            frequency   |-> choice[1],
                            due_day     |-> choice[2],
                            window_days |-> choice[3],
                            start_date  |-> choice[4],
                            is_active   |-> TRUE,
                            deactivated |-> FALSE ] >>
        /\ payments = << >>
        /\ last = SessionsState([ s \in Sessions |-> "start" ],
                                [ s \in Sessions |-> << >> ])

\* a session runs run_daily_payment_tasks up to the commit of
\* generate_all_due_payments: update_payment_statuses commits its changes,
\* the queries of generate_payment_for_schedule see the committed rows, and
\* the new payments are added to the session
SessionGenerates(s) ==
    /\ last.pc[s] = "start"
    /\ \E store \in { UpdatedStore(payments, today) } :
         /\ payments' = store
         /\ \E latest \in [1..Len(schedules) -> 0..Len(store)] :
              /\ \A k \in 1..Len(schedules) : latest[k] \in LatestPaymentIds(store, k)
              /\ \E generated \in { GenerateAllFrom(store, schedules, tenants, 1,
                                                    latest, today) } :
                   last' = SessionsState(
                       [last.pc EXCEPT ![s] = "generated"],
                       [last.added EXCEPT
                           ![s] = SubSeq(generated, Len(store) + 1, Len(generated))])
    /\ UNCHANGED <<today, tenants, schedules>>

\* the session commits (if generated: session.commit()): its rows are
\* inserted, and the run is over
SessionCommits(s) ==
    /\ last.pc[s] = "generated"
    /\ Len(payments) + Len(last.added[s]) <= MaxPayments
    /\ \A k \in 1..Len(last.added[s]) : InsertAccepted(payments, last.added[s][k])
    /\ payments' = payments \o last.added[s]
    /\ last' = SessionsState([last.pc EXCEPT ![s] = "start"],
                             [last.added EXCEPT ![s] = << >>])
    /\ UNCHANGED <<today, tenants, schedules>>

session_generates == \E s \in Sessions : SessionGenerates(s)

session_commits == \E s \in Sessions : SessionCommits(s)

NextSessions == session_generates \/ session_commits

SpecSessions == InitSessions /\ [][NextSessions]_vars

\* C24: when two generator runs for the same schedule overlap (both do their
\* queries before either commits), at most one payment for a given
\* (schedule_id, period_start) ends up stored.
C24_OnePaymentPerPeriod ==
    \A i, j \in PaymentIds(payments) :
        (/\ payments[i].schedule_id = payments[j].schedule_id
         /\ payments[i].schedule_id # NoId
         /\ payments[i].period_start = payments[j].period_start)
            => i = j

\* ------------------------------------------------ one day's operations

\* the operations of one day: the clock stands still while payments are
\* generated, paid and waived
NextSameDay ==
    create_tenant \/ GeneratePaymentForSchedule \/ mark_payment_paid \/ waive_payment

SpecSameDay == Init /\ [][NextSameDay]_vars

\* the payments of a schedule whose period starts after today
PaymentsAhead(sid) ==
    { i \in PaymentsOf(payments, sid) : payments[i].period_start > today }

MonthEndChoices ==
    { <<MONTHLY, 5, 5, MkDate(2024, 1, 31)>>,
      <<MONTHLY, 5, 5, MkDate(2023, 12, 30)>>,
      <<BI_MONTHLY, 5, 5, MkDate(2023, 12, 31)>>,
      <<MONTHLY, 1, 3, MkDate(2023, 11, 30)>>,
      <<MONTHLY, 5, 5, MkDate(2024, 1, 1)>> }

\* a tenant was created with one of these schedules
InitMonthEnd ==
    \E choice \in MonthEndChoices :
        /\ today \in TodayValues
        /\ tenants = << [ is_active |-> TRUE, move_in_date |-> choice[4] ] >>
        /\ schedules = << [ tenant_id   |-> 1,
                            amount      |-> 50000,
                            frequency   |-> choice[1],
                            due_day     |-> choice[2],
                            window_days |-> choice[3],
                            start_date  |-> choice[4],
                            is_active   |-> TRUE,
                            deactivated |-> FALSE ] >>
        /\ payments = << >>
        /\ last = Op("init", NoId, FALSE, 0, FALSE)

\* the schedule is left as it was created
NextMonthEnd ==
    \/ SetToday
    \/ GeneratePaymentForSchedule
    \/ GenerateAllDuePayments
    \/ UpdatePaymentStatuses
    \/ mark_payment_paid
    \/ waive_payment

SpecMonthEnd == InitMonthEnd /\ [][NextMonthEnd]_vars

\* C26: the payments generated for an unchanged schedule tile the timeline
\* from start_date: the first generated payment has period_start =
\* start_date, every later one has period_start = (period_end of the payment
\* that was latest when it was generated) + 1 day, also when start_date's
\* day is 29, 30 or 31 and adding months clamps the day.
C26_PeriodsTile ==
    [][ \A n \in NewIds :
          LET sid == payments'[n].schedule_id
              prior == PaymentsOf(payments, sid)
          IN  /\ sid # NoId
              /\ payments'[n].period_start <= payments'[n].period_end
              /\ IF prior = {}
                 THEN payments'[n].period_start = schedules[sid].start_date
                 ELSE \A l \in prior :
                        (\A j \in prior : payments[j].period_end <= payments[l].period_end)
                            => payments'[n].period_start = payments[l].period_end + 1
    ]_vars

\* the second payment of a tenancy that began on 31 January 2024 starts on
\* 29 February, the day after the first one ends
C26_Witness ==
    /\ Len(schedules) = 1
    /\ schedules[1].start_date = MkDate(2024, 1, 31)
    /\ last.op \in {"generate", "generate_all"}
    /\ CreatedIds = {2}
    /\ payments[1].period_start = MkDate(2024, 1, 31)
    /\ payments[1].period_end = MkDate(2024, 2, 28)
    /\ payments[2].period_start = MkDate(2024, 2, 29)
    /\ payments[2].period_end = MkDate(2024, 3, 28)

\* ------------------------------------------------ the daily task, day by day

\* tenancies the daily task is followed for:
\* <<frequency, due_day, window_days, start_date>>
DailyChoices ==
    { <<MONTHLY, 5, 5, MkDate(2024, 1, 1)>>,
      <<MONTHLY, 1, 3, MkDate(2023, 11, 30)>>,
      <<MONTHLY, 20, 5, MkDate(2024, 1, 15)>>,
      <<MONTHLY, 31, 5, MkDate(2023, 11, 30)>> }

\* how many periods of the schedule have begun up to the day: the passes of
\* the loop of calculate_next_period that end in the period containing it
PeriodsUntil(schedule, day) ==
    LET months == get_frequency_months(schedule.frequency)
        loop[current_period_start \in Nat] ==
          IF AddDays(AddMonths(current_period_start, months), -1) >= day
          THEN 1
          ELSE 1 + loop[AddMonths(current_period_start, months)]
    IN  loop[schedule.start_date]

\* a tenant was created with one of these schedules; the days are followed
\* while the periods begun fit in MaxPayments payments
InitDaily ==
    \E choice \in DailyChoices :
        /\ today \in TodayValues
        /\ tenants = << [ is_active |-> TRUE, move_in_date |-> choice[4] ] >>
        /\ schedules = << [ tenant_id   |-> 1,
                            amount      |-> 50000,
                            frequency   |-> choice[1],
                            due_day     |-> choice[2],
                            window_days |-> choice[3],
                            start_date  |-> choice[4],
                            is_active   |-> TRUE,
                            deactivated |-> FALSE ] >>
        /\ PeriodsUntil(schedules[1], today) <= MaxPayments
        /\ payments = << >>
        /\ last = Op("init", NoId, FALSE, 0, FALSE)

\* what run_daily_payment_tasks() can leave: update_payment_statuses commits
\* its changes, then generate_all_due_payments runs in the same session and
\* commits its payments, or raises and adds nothing
DailyResults(store, tdy) ==
    { IF GenerateAllRaises(store, schedules, tenants, 1, latest, tdy)
      THEN [ store |-> store, ret |-> Raised ]
      ELSE LET generated == GenerateAllFrom(store, schedules, tenants, 1, latest, tdy)
           IN  [ store |-> generated, ret |-> Len(generated) - Len(store) ] :
        latest \in { l \in [1..Len(schedules) -> 0..Len(store)] :
                       \A k \in 1..Len(schedules) :
                           l[k] \in LatestPaymentIds(store, k) } }

\* run_daily_payment_tasks(): the job runs when the application starts and
\* every day at 01:00
RunDailyPaymentTasks ==
    \E store \in { UpdatedStore(payments, today) } :
      \E result \in DailyResults(store, today) :
        /\ Len(result.store) <= MaxPayments
        /\ payments' = result.store
        /\ last' = Op("daily", NoId, FALSE, result.ret, FALSE)
        /\ UNCHANGED <<today, tenants, schedules>>

\* the next day begins, the day's job having run
Midnight ==
    /\ last.op = "daily"
    /\ PeriodsUntil(schedules[1], today + 1) <= MaxPayments
    /\ today' = today + 1
    /\ last' = Other
    /\ UNCHANGED <<tenants, schedules, payments>>

\* the landlord records a payment received on 12 January
record_payment ==
    \E payment_id \in PaymentIds(payments) :
        MarkPaymentPaid(payment_id, MkDate(2024, 1, 12), "receipt")

NextDaily == RunDailyPaymentTasks \/ Midnight \/ record_payment

\* the scheduler runs the job every day, and the days pass
SpecDaily ==
    InitDaily /\ [][NextDaily]_vars
        /\ WF_vars(RunDailyPaymentTasks) /\ WF_vars(Midnight)

\* the schedule has begun and is active, and so is its tenant
ScheduleRuns(sid) ==
    /\ schedules[sid].is_active
    /\ tenants[schedules[sid].tenant_id].is_active
    /\ schedules[sid].start_date <= today

\* a payment of the schedule has a period that contains today
CoversToday(sid) ==
    \E i \in PaymentsOf(payments, sid) :
        payments[i].period_start <= today /\ today <= payments[i].period_end

C27_CatchesUpWithDueDayInEveryMonth ==
    \A sid \in {1} :
        (ScheduleRuns(sid) /\ schedules[sid].due_day <= 28) ~> CoversToday(sid)

\* ------------------------------------------------ the two status rules

\* C28: the status rule of the payment endpoints (update_payment_status,
\* applied by list_payments, get_payment_summary and get_payment) and the
\* batch rule of update_payment_statuses agree: for every payment and every
\* today, refreshing the payment through an endpoint leaves it with the
\* status that running update_payment_statuses would leave it with.
C28_EndpointAndBatchAgree ==
    \A i \in PaymentIds(payments) :
        payments[i].status # VERIFYING
            => update_payment_status(payments[i], today)
                   = UpdatedStore(payments, today)[i].status

\* ------------------------------------------------ the reminder queries

\* get_payments_entering_window(session): due today and still UPCOMING
get_payments_entering_window(store, tdy) ==
    { i \in PaymentIds(store) :
        store[i].due_date = tdy /\ store[i].status = UPCOMING }

\* get_payments_becoming_overdue(session): the window ended yesterday and the
\* payment is still UPCOMING or PENDING
get_payments_becoming_overdue(store, tdy) ==
    { i \in PaymentIds(store) :
        /\ store[i].window_end_date = AddDays(tdy, -1)
        /\ store[i].status \in {UPCOMING, PENDING} }

\* tenancies whose payments are due or leave their window on the days of
\* TodayValues: <<frequency, due_day, window_days, start_date>>
WindowChoices ==
    { <<MONTHLY, 15, 4, MkDate(2024, 1, 1)>>,
      <<MONTHLY, 20, 5, MkDate(2024, 1, 1)>>,
      <<MONTHLY, 7, 12, MkDate(2024, 1, 1)>> }

\* a tenant was created with one of these schedules
InitWindow ==
    \E choice \in WindowChoices :
        /\ today \in TodayValues
        /\ tenants = << [ is_active |-> TRUE, move_in_date |-> choice[4] ] >>
        /\ schedules = << [ tenant_id   |-> 1,
                            amount      |-> 50000,
                            frequency   |-> choice[1],
                            due_day     |-> choice[2],
                            window_days |-> choice[3],
                            start_date  |-> choice[4],
                            is_active   |-> TRUE,
                            deactivated |-> FALSE ] >>
        /\ payments = << >>
        /\ last = Op("init", NoId, FALSE, 0, FALSE)

NextWindow ==
    \/ SetToday
    \/ GeneratePaymentForSchedule
    \/ UpdatePaymentStatuses
    \/ update_payment
    \/ waive_payment

SpecWindow == InitWindow /\ [][NextWindow]_vars

\* C29: once update_payment_statuses has run for today,
\* get_payments_entering_window and get_payments_becoming_overdue return
\* none of the payments that existed before that run.
C29_NothingReportedAfterUpdate ==
    [][ last'.op = "update_statuses"
          => /\ get_payments_entering_window(payments', today') = {}
             /\ get_payments_becoming_overdue(payments', today') = {}
    ]_vars

\* C29 for the payments whose dates are as generated (window_end_date =
\* due_date + window_days): none of them is reported after the update
C29_GeneratedDatesNotReported ==
    [][ last'.op = "update_statuses"
          => \A i \in get_payments_entering_window(payments', today')
                       \cup get_payments_becoming_overdue(payments', today') :
                 payments'[i].window_end_date
                     # payments'[i].due_date
                         + schedules[payments'[i].schedule_id].window_days
    ]_vars

\* ------------------------------------------------ periods after a reschedule

\* C30: the periods of the payments generated for one schedule never
\* overlap, also after update_tenant_schedule changes the schedule's
\* frequency between two generations: every newly generated payment has a
\* period_start later than the period_end of every existing payment of that
\* schedule.
C30_NewPeriodAfterExisting ==
    [][ \A n \in NewIds :
          \A j \in PaymentsOf(payments, payments'[n].schedule_id) :
              payments'[n].period_start > payments[j].period_end
    ]_vars

====
